---- MODULE Spec2Model ----
(***************************************************************************)
(* The drive-through controller of drive_thru_system.py: the run() loop    *)
(* polling the loop detector, process_customer() in its simple flow        *)
(* (announce_offers, get_customer_order_simple, handoff_to_operator_simple *)
(* and handoff_to_operator) and the order_queue it feeds.                  *)
(*                                                                         *)
(* Text is a sequence of one-character strings, so that Python's substring *)
(* test, strip(), lower() and len() are computed as the code computes them.*)
(***************************************************************************)
EXTENDS Integers, Sequences, FiniteSets, TLC

VARIABLES
    sensor,            \* level of the loop detector pin (GPIO.input == HIGH)
    pc,                \* where run() is: "loop", "detect", "announce", "listen",
                       \* "handoff", "return", "exited" or "crashed"
    running,           \* self.running
    car_detected,      \* the local car_detected of run()
    special_offers,    \* self.special_offers, the configured menu
    current_customer,  \* self.current_customer (0 stands for None)
    attempt,           \* the loop index of get_customer_order_simple (0-based)
    order_data,        \* the dict get_customer_order_simple returned
    handoff_info,      \* what the last process_customer() returned
    car_number,        \* self._car_number
    order_queue,       \* self.order_queue, oldest record first
    \* ---- history variables: they record what happened, the code never reads them
    sessions,          \* process_customer() calls started so far
    inProgress,        \* process_customer() calls that have not returned or raised
    heard,             \* this session: what each listen() result was taken for, in order
    announced,         \* this session: full menu announcements (announce_offers calls)
    reprompts,         \* this session: short reprompts spoken
    sinceAnnounce,     \* this session: listen() calls since the last announce_offers
    carAtStart,        \* self._car_number when this session started
    freshEdge,         \* the detector rose, outside any session, since the last session began
    roseInSession,     \* the detector rose during the last session begun
    briefLow,          \* the last low sample run() took came right after a high one
    spoken,            \* this session: what the last announce_offers() spoke, in order
    speechFailed,      \* this session: a speak() of the menu or of a reprompt gave no sound
    outcome,           \* this session: which return of get_customer_order_simple was taken
    terminated,        \* the sessions that returned, in the order they returned
    pushedBy,          \* the session of each order_queue.put() so far, in order
    consumed,          \* the records the operator side has taken off order_queue
    \* ---- the matcher of get_customer_order_simple taken alone (SpecMatch)
    listenEvent,       \* what happened in a listen() call: its cause and the text
    listenResult,      \* what that listen() call returned
    branch,            \* the branch of the loop body it took (NoBranch before)
    \* ---- run() against the clock (SpecClock)
    now,               \* the local time, in tenths of a second
    ids,               \* the customer_id of each process_customer() call so far
    \* ---- get_customer_order_continuous with its post-processor (SpecPost)
    phrases,           \* what listen_continuous() returned
    ollamaReply,       \* what the Ollama client does when asked
    continuous,        \* the dict get_customer_order_continuous returned (NoData before)
    \* ---- get_customer_order, the confirm-and-correct flow (SpecConfirm)
    dialogue,          \* what the listen() calls of one get_customer_order return, in order
    orderResult,       \* the dict get_customer_order returned (NoData before)
    \* ---- stop() called from another thread (SpecStop)
    stopCalled         \* history: stop() has been called while run() was executing

vars == <<sensor, pc, running, car_detected, special_offers, current_customer,
          attempt, order_data, handoff_info, car_number, order_queue, sessions,
          inProgress, heard, announced, reprompts, sinceAnnounce, carAtStart,
          freshEdge, roseInSession, briefLow, spoken, speechFailed, outcome,
          terminated,
          pushedBy, consumed, listenEvent, listenResult, branch, now, ids,
          phrases, ollamaReply, continuous, dialogue, orderResult,
          stopCalled>>

----------------------------------------------------------------------------
(* Bounds of the model *)

\* process_customer() calls one run() is followed through
MaxSessions == 2
\* how long run() is followed against the clock, in tenths of a second
MaxNow == 45
\* the longest configured menu considered (config.json "special_offers")
MaxOffers == 5
\* the most listen() results of one get_customer_order() considered
MaxDialogue == 5

(* Program constants *)

\* menu_choices of get_customer_order_simple and announce_offers
menu_choices == 4
\* max_repeats of get_customer_order_simple
max_repeats == 3
\* max_attempts of get_customer_order
max_attempts == 3
\* the length under which an utterance holding "repeat" is a repeat request
RepeatMaxLen == 15
\* the digit get_customer_order_simple tests for a repeat request
REPEAT_CODE == 0
\* the digit get_customer_order_simple tests for a cancellation
CANCEL_CODE == 6
\* maxsize of queue.Queue(): 0, the default, is a queue without limit
maxsize == 0
\* tenths of a second in the unit of customer_id, '%Y%m%d_%H%M%S': one second
TicksPerSecond == 10
\* time.sleep(1.5) of announce_offers, in tenths of a second
GreetingPause == 15
\* time.sleep(0.2) of run(), in tenths of a second
PollSleep == 2

----------------------------------------------------------------------------
(* Text: characters, Python's str methods *)

UpperCase == <<"A","B","C","D","E","F","G","H","I","J","K","L","M",
               "N","O","P","Q","R","S","T","U","V","W","X","Y","Z">>
LowerCase == <<"a","b","c","d","e","f","g","h","i","j","k","l","m",
               "n","o","p","q","r","s","t","u","v","w","x","y","z">>
Digits == <<"0","1","2","3","4","5","6","7","8","9">>
Whitespace == {" ", "\t", "\n"}

\* c.lower() of one character
LowerChar(c) ==
    IF \E k \in 1..Len(UpperCase) : UpperCase[k] = c
    THEN LowerCase[CHOOSE k \in 1..Len(UpperCase) : UpperCase[k] = c]
    ELSE c

\* s.lower()
Lower(s) == [i \in 1..Len(s) |-> LowerChar(s[i])]

\* s.strip(): leading and trailing whitespace removed
Strip(s) ==
    LET keep == {i \in 1..Len(s) : s[i] \notin Whitespace}
    IN  IF keep = {} THEN <<>>
        ELSE SubSeq(s, CHOOSE i \in keep : \A j \in keep : i <= j,
                       CHOOSE i \in keep : \A j \in keep : i >= j)

\* sub in s
Contains(s, sub) ==
    \E i \in 1..(Len(s) - Len(sub) + 1) : SubSeq(s, i, i + Len(sub) - 1) = sub

\* str(n) of a non-negative int
RECURSIVE Str(_)
Str(n) == IF n < 10 THEN <<Digits[n + 1]>>
          ELSE Str(n \div 10) \o <<Digits[(n % 10) + 1]>>

T_zero == <<"z","e","r","o">>
T_one == <<"o","n","e">>
T_two == <<"t","w","o">>
T_three == <<"t","h","r","e","e">>
T_four == <<"f","o","u","r">>
T_five == <<"f","i","v","e">>
T_six == <<"s","i","x">>
T_seven == <<"s","e","v","e","n">>
T_eight == <<"e","i","g","h","t">>
T_nine == <<"n","i","n","e">>
T_ten == <<"t","e","n">>
T_repeat == <<"r","e","p","e","a","t">>

\* the dict words of _number_to_word, keys 0..10
words == <<T_zero, T_one, T_two, T_three, T_four, T_five, T_six, T_seven,
           T_eight, T_nine, T_ten>>

\* _number_to_word(num): words.get(num, str(num))
NumberToWord(num) == IF num \in 0..(Len(words) - 1) THEN words[num + 1] ELSE Str(num)

----------------------------------------------------------------------------
(* What the customer may say *)

U_empty == <<>>
U_blank == <<" "," ">>
U_Two == <<" ","T","w","o"," ">>
U_SIX == <<"S","I","X">>
U_hello == <<"h","e","l","l","o">>
U_repeat_menu == <<"p","l","e","a","s","e"," ","r","e","p","e","a","t"," ","t","h","e"," ","m","e","n","u">>
U_ten_digits == <<"1","0">>
U_sixteen_digits == <<"1","6">>
U_sixty_digits == <<"6","0">>
U_someone == <<"s","o","m","e","o","n","e">>
U_fourteen == <<"f","o","u","r","t","e","e","n">>
U_two_zero == <<"t","w","o"," ","t","h","e","n"," ","z","e","r","o">>
U_one_six == <<"o","n","e"," ","o","r"," ","s","i","x">>
U_three_or_one == <<"t","h","r","e","e"," ","o","r"," ","o","n","e">>
P_have == <<"i","'","l","l"," ","h","a","v","e"," ","n","u","m","b","e","r"," ">>
P_number == <<"n","u","m","b","e","r"," ">>
S_please == <<" ","p","l","e","a","s","e">>
P_repeat_item == <<"r","e","p","e","a","t"," ","i","t","e","m"," ">>
U_or == <<" ","o","r"," ">>

\* carrier phrases: the words before and after a code
Carriers == { <<U_empty, U_empty>>, <<P_have, U_empty>>, <<P_number, S_please>>,
              <<P_repeat_item, U_empty>> }
\* the codes the dialogue speaks of: 0 repeat, 1..5 select, 6 cancel
Codes == 0..6

\* the code token tok inside the carrier phrase c
Embed(c, tok) == c[1] \o tok \o c[2]

\* two codes in one utterance: "a or b"
Pair(a, b) == NumberToWord(a) \o U_or \o NumberToWord(b)

Utterances ==
    { U_empty, U_blank, U_Two, U_SIX, U_hello, T_repeat, U_repeat_menu,
      U_ten_digits, U_sixteen_digits, U_sixty_digits, U_someone, U_fourteen,
      U_two_zero, U_one_six, U_three_or_one }
    \cup { Embed(c, Str(k)) : c \in Carriers, k \in Codes }
    \cup { Embed(c, NumberToWord(k)) : c \in Carriers, k \in Codes }
    \cup { Pair(a, b) : a, b \in Codes }

\* listen() returns None (timeout, speech not understood, service error, no
\* microphone) or the transcribed text
NoResponse == [heard |-> FALSE, text |-> <<>>]
Heard(t) == [heard |-> TRUE, text |-> t]
\* why a listen() call ends without text: no microphone (line 705), no speech
\* within the timeout (757), speech not understood (761), recognition
\* service not reachable (765)
ListenFailures == {"no_microphone", "timeout", "unknown_value", "request_error"}
Timeout == [cause |-> "timeout", text |-> <<>>]
ListenEvents ==
    {[cause |-> c, text |-> <<>>] : c \in ListenFailures}
    \cup {[cause |-> "heard", text |-> t] : t \in Utterances}

\* a plausible slip: the message of the service error is returned as the text
ListenReturn_message(e) ==
    IF e.cause = "heard" THEN Heard(e.text)
    ELSE IF e.cause = "request_error" THEN Heard(<<"e","r","r","o","r">>)
    ELSE NoResponse

\* what listen() returns, lines 705-768: the text, or None on every failure
ListenReturn(e) == IF e.cause = "heard" THEN Heard(e.text) ELSE NoResponse

\* the results listen() can return
Responses == {ListenReturn(e) : e \in ListenEvents}

----------------------------------------------------------------------------
(* get_customer_order_simple: the branch a listen() result takes *)

\* a plausible slip: the loop of line 1047 does not stop at the first match
Min_largest(S) == CHOOSE x \in S : \A y \in S : x >= y

\* the smallest member of a non-empty set of numbers
Min(S) == CHOOSE x \in S : \A y \in S : x <= y

\* lines 1024-1053: [kind, selected_offer] of a listen() result.  kind is
\* "none" (not order_text), "repeat", "cancel", "select" or "unrecognised".
Classify(response) ==
    LET order_text == IF response.heard /\ response.text # <<>>
                      THEN Strip(response.text) ELSE <<>>
        response_lower == Strip(Lower(order_text))
        found == {i \in 1..menu_choices :
                     \/ Contains(response_lower, Str(i))
                     \/ Contains(response_lower, NumberToWord(i))}
    IN  IF order_text = <<>>
        THEN [kind |-> "none", selected_offer |-> 0]
        ELSE IF \/ Contains(response_lower, Str(REPEAT_CODE))
                \/ Contains(response_lower, T_zero)
                \/ (Contains(response_lower, T_repeat) /\ Len(response_lower) < RepeatMaxLen)
        THEN [kind |-> "repeat", selected_offer |-> 0]
        ELSE IF \/ Contains(response_lower, Str(CANCEL_CODE))
                \/ Contains(response_lower, T_six)
        THEN [kind |-> "cancel", selected_offer |-> 0]
        ELSE IF found = {}
        THEN [kind |-> "unrecognised", selected_offer |-> 0]
        ELSE [kind |-> "select", selected_offer |-> Min(found)]

\* the results Classify gives over the responses of the model: what one
\* listen() can make of the customer
Classified == {Classify(r) : r \in Responses}

\* the labels a configured menu is made of
AllOffers == <<"A", "B", "C", "D", "E", "F", "G", "H">>

\* l[:n]
Prefix(l, n) == SubSeq(l, 1, IF n < Len(l) THEN n ELSE Len(l))

\* offers of line 1057: special_offers[:menu_choices] if special_offers else []
Offers(so) == IF so # <<>> THEN Prefix(so, menu_choices) ELSE <<>>

NoData == [none |-> TRUE]

\* the dict returned at line 1037
CancelledData ==
    [full_order_text |-> "None", selected_offer |-> 0, car_number |-> 0,
     order_id |-> <<"None", 0>>, cancelled |-> TRUE]

\* the dict returned at line 1067
AbandonedData ==
    [full_order_text |-> "None", selected_offer |-> 0, car_number |-> 0,
     order_id |-> <<"None", 0>>, cancelled |-> FALSE]

\* a plausible slip: the index is not used
OrderDisplay_first(so, selected_offer) ==
    IF Offers(so) # <<>> THEN Offers(so)[1] ELSE "heard text"

\* order_display of line 1058, once the index is known to exist: the offer,
\* or the text heard when no menu is configured
OrderDisplay(so, selected_offer) ==
    IF Offers(so) # <<>> THEN Offers(so)[selected_offer] ELSE "heard text"

\* line 1058 raises IndexError: offers is non-empty and shorter than the choice
DisplayRaises(so, selected_offer) ==
    Offers(so) # <<>> /\ selected_offer > Len(Offers(so))

\* the dict returned at line 1059, car being self._car_number after line 1054
ConfirmedData(so, selected_offer, car) ==
    [full_order_text |-> OrderDisplay(so, selected_offer),
     selected_offer |-> selected_offer, car_number |-> car,
     order_id |-> <<"Car", car>>, cancelled |-> FALSE]

----------------------------------------------------------------------------
(* get_customer_order_continuous and the Ollama post-processor *)

U_sep == <<".", " ">>

\* ". ".join(l)
RECURSIVE Join(_)
Join(l) == IF l = <<>> THEN <<>>
           ELSE IF Len(l) = 1 THEN l[1]
           ELSE l[1] \o U_sep \o Join(Tail(l))

\* what listen_continuous() may return
PhraseLists ==
    { <<>>, <<T_two>>, <<U_hello>>, <<U_hello, T_three>>, <<U_one_six>>,
      <<T_four, U_ten_digits>> }

\* what the Ollama client may do: not in use (use_ollama False or no client),
\* generate() raises, or it answers with a text; "echo" answers with the
\* order itself
ReplyOff == [kind |-> "off", text |-> <<>>]
OllamaReplies ==
    { ReplyOff, [kind |-> "raises", text |-> <<>>], [kind |-> "echo", text |-> <<>>],
      [kind |-> "text", text |-> <<>>], [kind |-> "text", text |-> U_blank],
      [kind |-> "text", text |-> U_Two], [kind |-> "text", text |-> U_hello] }

\* _process_order_with_ollama(order_text), lines 1128-1157
ProcessOrder(order_text, reply) ==
    IF reply.kind = "raises" THEN order_text
    ELSE LET processed == Strip(IF reply.kind = "echo" THEN U_blank \o order_text
                                ELSE reply.text)
         IN  IF processed # <<>> /\ Lower(processed) # Lower(order_text)
             THEN processed ELSE order_text

\* a plausible slip: the number is looked for after the post-processing
MatchedText_processed(full_order, processed) == processed

\* the text of line 1096 in which the menu number is looked for: the order
\* as heard, the post-processor runs after the loop of line 1097
MatchedText(full_order, processed) == full_order

\* lines 1083-1126; has_text FALSE stands for full_order_text None
ContinuousData(ph, reply, so) ==
    LET full_order == Join(ph)
        processed == IF reply.kind # "off" /\ full_order # <<>>
                     THEN ProcessOrder(full_order, reply) ELSE <<>>
        final == IF processed # <<>> THEN processed ELSE full_order
        full_order_lower == Lower(MatchedText(full_order, final))
        found == {i \in 1..Len(so) :
                     \/ Contains(full_order_lower, Str(i))
                     \/ Contains(full_order_lower, NumberToWord(i))}
    IN  IF ph = <<>>
        THEN [has_text |-> FALSE, full_order_text |-> <<>>, selected_offer |-> 0,
              order_phrases |-> <<>>]
        ELSE [has_text |-> TRUE, full_order_text |-> final,
              selected_offer |-> IF found = {} THEN 0 ELSE Min(found),
              order_phrases |-> ph]

\* line 1199: the customer is thanked for the order when there is order text
ThanksForOrder(data) == data.has_text /\ data.full_order_text # <<>>

----------------------------------------------------------------------------
(* get_customer_order, the confirm-and-correct flow *)

U_yes == <<"y","e","s">>
U_no == <<"n","o">>
W_correct == <<"c","o","r","r","e","c","t">>
W_right == <<"r","i","g","h","t">>
W_thats_it == <<"t","h","a","t","'","s"," ","i","t">>
W_thats_all == <<"t","h","a","t","'","s"," ","a","l","l">>
W_wrong == <<"w","r","o","n","g">>
W_change == <<"c","h","a","n","g","e">>
W_nothing == <<"n","o","t","h","i","n","g">>
W_no_thanks == <<"n","o"," ","t","h","a","n","k","s">>

\* the word lists of lines 988, 994 and 1001
YesWords == {U_yes, W_correct, W_right, W_thats_it, W_thats_all}
NoMoreWords == {U_no, W_thats_all, W_nothing, W_no_thanks, W_thats_it}
RejectWords == {U_no, W_wrong, W_change}

\* any(word in text for word in ws)
AnyIn(ws, text) == \E w \in ws : Contains(text, w)

\* s.split(sep)
RECURSIVE Split(_, _)
Split(s, sep) ==
    LET at == {i \in 1..(Len(s) - Len(sep) + 1) : SubSeq(s, i, i + Len(sep) - 1) = sep}
    IN  IF at = {} THEN <<s>>
        ELSE LET i == CHOOSE k \in at : \A j \in at : k <= j
             IN  <<SubSeq(s, 1, i - 1)>> \o Split(SubSeq(s, i + Len(sep), Len(s)), sep)

\* what the customer may say to get_customer_order: an order, a greeting,
\* yes, no
Says == {T_two, U_hello, U_yes, U_no}

\* the k-th listen() result of the dialogue rs; a listen() past its end
\* times out
At(rs, k) == IF k <= Len(rs) THEN rs[k] ELSE NoResponse

\* rs without its first k results
Drop(rs, k) == IF k >= Len(rs) THEN <<>> ELSE SubSeq(rs, k + 1, Len(rs))

\* if confirmation: a text that is not empty
Truthy(r) == r.heard /\ r.text # <<>>

\* the dict of lines 1011-1015; has_text FALSE stands for order_text None.
\* rejected is not in the dict: it records that the customer answered no,
\* wrong or change to this order text and no order was heard afterwards
OrderDict(has, text, sel, rej) ==
    [has_text |-> has, full_order_text |-> text, selected_offer |-> sel,
     order_phrases |-> IF has /\ text # <<>> THEN Split(text, U_sep) ELSE <<>>,
     rejected |-> rej]

\* the loop of lines 961-1009 from attempt att on, rs being the listen()
\* results to come
RECURSIVE OrderLoop(_, _, _, _, _, _, _)
OrderLoop(att, rs, has, text, sel, rej, so) ==
    IF att >= max_attempts THEN OrderDict(has, text, sel, rej)
    ELSE
    LET response == At(rs, 1)
        response_lower == Lower(response.text)
        found == {i \in 1..Len(so) :
                     \/ Contains(response_lower, Str(i))
                     \/ Contains(response_lower, NumberToWord(i))}
        selected == IF found = {} THEN sel ELSE Min(found)
        confirmation == At(rs, 2)
        conf_lower == Lower(confirmation.text)
        additional == At(rs, 3)
        add_lower == Lower(additional.text)
    IN  IF ~response.heard
        THEN OrderLoop(att + 1, Drop(rs, 1), has, text, sel, rej, so)
        ELSE IF ~(att < max_attempts - 1)
        THEN OrderDict(TRUE, response.text, selected, FALSE)
        ELSE IF ~Truthy(confirmation)
        THEN OrderLoop(att + 1, Drop(rs, 2), TRUE, response.text, selected, FALSE, so)
        ELSE IF AnyIn(YesWords, conf_lower)
        THEN IF Truthy(additional) /\ ~AnyIn(NoMoreWords, add_lower)
             THEN OrderDict(TRUE, response.text \o U_sep \o additional.text, selected, FALSE)
             ELSE OrderDict(TRUE, response.text, selected, FALSE)
        ELSE IF AnyIn(RejectWords, conf_lower)
        THEN OrderLoop(att + 1, Drop(rs, 2), TRUE, response.text, selected, TRUE, so)
        ELSE OrderDict(TRUE, response.text \o U_sep \o confirmation.text, selected, FALSE)

\* get_customer_order(), lines 955-1015
GetCustomerOrder(rs, so) == OrderLoop(0, rs, FALSE, <<>>, 0, FALSE, so)

----------------------------------------------------------------------------
(* The state after DriveThruSystem() and the first lines of run() *)

NoHandoff == [none |-> TRUE]

\* no listen() result has been put to the matcher yet
NoBranch == [kind |-> "pending", selected_offer |-> 0]

\* the state DriveThruSystem() leaves, but for running and the position of
\* run()
Built ==
    /\ sensor = FALSE
    /\ car_detected = FALSE
    /\ stopCalled = FALSE
    /\ special_offers \in {Prefix(AllOffers, n) : n \in 0..MaxOffers}
    /\ current_customer = 0
    /\ attempt = 0
    /\ order_data = NoData
    /\ handoff_info = NoHandoff
    /\ car_number = 0
    /\ order_queue = <<>>
    /\ sessions = 0
    /\ inProgress = 0
    /\ heard = <<>>
    /\ announced = 0
    /\ reprompts = 0
    /\ sinceAnnounce = 0
    /\ carAtStart = 0
    /\ freshEdge = FALSE
    /\ roseInSession = FALSE
    /\ outcome = "none"
    /\ terminated = <<>>
    /\ pushedBy = <<>>
    /\ consumed = <<>>
    /\ briefLow = FALSE
    /\ spoken = <<>>
    /\ speechFailed = FALSE
    /\ now = 0
    /\ ids = <<>>
    /\ dialogue = <<>>
    /\ orderResult = NoData

\* run() has set running (line 1274) and car_detected (line 1285) and is at
\* the loop test of line 1288
Constructed ==
    /\ Built
    /\ pc = "loop"
    /\ running = TRUE

Init ==
    /\ Constructed
    /\ phrases = <<>>
    /\ ollamaReply = ReplyOff
    /\ continuous = NoData
    /\ listenEvent = Timeout
    /\ listenResult = NoResponse
    /\ branch = NoBranch

sessionVars == <<attempt, order_data, heard, announced, reprompts, sinceAnnounce,
                 carAtStart, outcome, spoken, speechFailed>>
queueVars == <<order_queue, consumed, terminated, pushedBy, handoff_info>>
edgeVars == <<freshEdge, roseInSession, briefLow>>
matchVars == <<listenEvent, listenResult, branch>>
clockVars == <<now, ids>>
postVars == <<phrases, ollamaReply, continuous>>
confirmVars == <<dialogue, orderResult>>
asideVars == <<matchVars, clockVars, postVars, confirmVars, stopCalled>>
programVars == <<sensor, pc, running, car_detected, special_offers, current_customer,
                 car_number, sessions, inProgress, sessionVars, queueVars, edgeVars>>

----------------------------------------------------------------------------
(* The environment *)

\* a plausible slip: when the vehicle leaves, the session is given up
SensorChange_aborts ==
    /\ sensor' = ~sensor
    /\ freshEdge' = (freshEdge \/ (~sensor /\ inProgress = 0))
    /\ roseInSession' = (roseInSession \/ (~sensor /\ inProgress > 0))
    /\ pc' = IF sensor /\ pc \in {"announce", "listen"} THEN "handoff" ELSE pc
    /\ order_data' = IF sensor /\ pc \in {"announce", "listen"} THEN AbandonedData
                     ELSE order_data
    /\ outcome' = IF sensor /\ pc \in {"announce", "listen"} THEN "Abandoned"
                  ELSE outcome
    /\ UNCHANGED <<asideVars, briefLow, running, car_detected, special_offers,
                   current_customer, car_number, sessions, inProgress, attempt,
                   heard, announced, reprompts, sinceAnnounce, carAtStart, spoken,
                   speechFailed, queueVars>>

\* the loop detector changes level: a vehicle drives onto or off the loop
SensorChange ==
    /\ sensor' = ~sensor
    /\ freshEdge' = (freshEdge \/ (~sensor /\ inProgress = 0))
    /\ roseInSession' = (roseInSession \/ (~sensor /\ inProgress > 0))
    /\ UNCHANGED <<asideVars, briefLow, pc, running, car_detected, special_offers,
                   current_customer, car_number, sessions, inProgress, sessionVars,
                   queueVars>>

\* the operator side takes the oldest record off order_queue (queue.Queue.get)
Pop ==
    /\ order_queue # <<>>
    /\ consumed' = Append(consumed, Head(order_queue))
    /\ order_queue' = Tail(order_queue)
    /\ UNCHANGED <<asideVars, sensor, edgeVars, pc, running, car_detected, special_offers,
                   current_customer, car_number, sessions, inProgress,
                   sessionVars, terminated, pushedBy, handoff_info>>

----------------------------------------------------------------------------
(* run() *)

\* run() is inside the call self.process_customer() of line 1295: the call is
\* synchronous, the loop does not go on before it returns
InCall == pc \in {"announce", "listen", "handoff", "return"}

\* line 1288: while self.running
LoopTest ==
    /\ pc = "loop"
    /\ pc' = IF running THEN "detect" ELSE "exited"
    /\ UNCHANGED <<asideVars, sensor, edgeVars, running, car_detected, special_offers,
                   current_customer, car_number, sessions, inProgress,
                   sessionVars, queueVars>>

\* a plausible slip: the flag is not consulted
CarJustArrived_always(detected) == TRUE

\* line 1291: if not car_detected
CarJustArrived(detected) == ~detected

\* lines 1290-1295 and 1245-1246: the detector is high and car_detected is
\* False: the car just arrived, process_customer() is called
DetectArrival ==
    /\ pc = "detect"
    /\ sensor
    /\ CarJustArrived(car_detected)
    /\ sessions < MaxSessions
    /\ car_detected' = TRUE
    /\ sessions' = sessions + 1
    /\ inProgress' = inProgress + 1
    /\ current_customer' = sessions + 1
    /\ pc' = "announce"
    /\ attempt' = 0
    /\ order_data' = NoData
    /\ heard' = <<>>
    /\ announced' = 0
    /\ reprompts' = 0
    /\ sinceAnnounce' = 0
    /\ carAtStart' = car_number
    /\ freshEdge' = FALSE
    /\ roseInSession' = FALSE
    /\ outcome' = "none"
    /\ spoken' = <<>>
    /\ speechFailed' = FALSE
    /\ UNCHANGED <<asideVars, briefLow, sensor, running, special_offers, car_number,
                   queueVars>>

\* lines 1290-1291: the detector is high and car_detected is already True
DetectPresent ==
    /\ pc = "detect"
    /\ sensor
    /\ ~CarJustArrived(car_detected)
    /\ pc' = "loop"
    /\ UNCHANGED <<asideVars, sensor, edgeVars, running, car_detected, special_offers,
                   current_customer, car_number, sessions, inProgress,
                   sessionVars, queueVars>>

\* lines 1297-1303: the detector is low
DetectAbsent ==
    /\ pc = "detect"
    /\ ~sensor
    /\ car_detected' = FALSE
    /\ briefLow' = car_detected
    /\ pc' = "loop"
    /\ UNCHANGED <<asideVars, sensor, freshEdge, roseInSession, running, special_offers,
                   current_customer, car_number, sessions, inProgress, sessionVars,
                   queueVars>>

----------------------------------------------------------------------------
(* process_customer(), simple flow *)

\* offers_to_announce of line 881
OffersToAnnounce(so) == IF so # <<>> THEN Prefix(so, menu_choices) ELSE <<>>

\* what announce_offers() speaks, lines 874-948: the greeting, then the
\* offers to announce and the prompt, or the apology when there is none
Announcement(so) ==
    IF Len(OffersToAnnounce(so)) = 0 THEN <<"greeting", "error_msg">>
    ELSE <<"greeting">> \o OffersToAnnounce(so) \o <<"prompt">>

\* a plausible slip: the error of the text-to-speech engine is not caught
AfterSpeak_raises(sounded, next) == IF sounded THEN next ELSE "crashed"

\* where the caller of speak() goes on: speak() catches what the engine
\* raises (lines 621, 668, 690-692) and returns, sound or no sound
AfterSpeak(sounded, next) == next

\* line 1256: self.announce_offers(), then get_customer_order_simple is
\* entered; sounded tells whether the text-to-speech engine gave sound
AnnounceOffersWith(sounded) ==
    /\ pc = "announce"
    /\ announced' = announced + 1
    /\ sinceAnnounce' = 0
    /\ attempt' = 0
    /\ spoken' = Announcement(special_offers)
    /\ speechFailed' = (speechFailed \/ ~sounded)
    /\ pc' = AfterSpeak(sounded, "listen")
    /\ outcome' = IF pc' = "crashed" THEN "raised" ELSE outcome
    /\ inProgress' = IF pc' = "crashed" THEN inProgress - 1 ELSE inProgress
    /\ UNCHANGED <<asideVars, sensor, edgeVars, running, car_detected, special_offers,
                   current_customer, car_number, sessions, order_data,
                   heard, reprompts, carAtStart, queueVars>>

\* line 1256 with a text-to-speech engine that works
AnnounceOffers == AnnounceOffersWith(TRUE)

\* the same with a text-to-speech engine that fails: speak() prints the error
\* and returns (lines 621-627, 668-678, 690-695)
AnnounceOffersSilent == AnnounceOffersWith(FALSE)

\* a plausible slip: range(max_repeats) instead of range(max_repeats + 1)
HasNextAttempt_long(a) == a + 1 < max_repeats + 2

HasNextAttempt_short(a) == a + 1 < max_repeats

\* line 1021: for _ in range(max_repeats + 1) has an iteration after this one
HasNextAttempt(a) == a + 1 < max_repeats + 1

\* a plausible slip: the reprompt is spoken on every branch
Reprompts_all(kind) == TRUE

\* lines 1025-1027 and 1051-1053: the branches that speak the short reprompt
Reprompts(kind) == kind \in {"none", "unrecognised"}

\* lines 1030-1033: the branch that calls announce_offers() again
Reannounces(kind) == kind = "repeat"

\* a plausible slip: the counter moves on every branch that ends the loop
TakesCarNumber_all(kind) == kind \in {"select", "cancel"}

\* line 1054: the branch that increments self._car_number
TakesCarNumber(kind) == kind = "select"

\* one iteration of the loop of get_customer_order_simple, lines 1021-1074:
\* listen, then the branch the result takes; sounded tells whether the
\* reprompt or the repeated menu of this iteration gave sound
ListenWith(sounded) ==
    /\ pc = "listen"
    /\ \E c \in Classified :
        LET raises == c.kind = "select" /\ DisplayRaises(special_offers, c.selected_offer)
            continues == c.kind \in {"none", "repeat", "unrecognised"}
            next == IF raises THEN "crashed"
                    ELSE IF continues /\ HasNextAttempt(attempt) THEN "listen"
                    ELSE "handoff"
        IN  /\ sounded \/ continues
            /\ speechFailed' = (speechFailed \/ ~sounded)
            /\ heard' = Append(heard, c)
            /\ reprompts' = IF Reprompts(c.kind) THEN reprompts + 1 ELSE reprompts
            /\ announced' = IF Reannounces(c.kind) THEN announced + 1 ELSE announced
            /\ sinceAnnounce' = IF Reannounces(c.kind) THEN 0 ELSE sinceAnnounce + 1
            /\ attempt' = IF continues THEN attempt + 1 ELSE attempt
            /\ car_number' = IF TakesCarNumber(c.kind) THEN car_number + 1 ELSE car_number
            /\ spoken' = IF Reannounces(c.kind) THEN Announcement(special_offers)
                         ELSE spoken
            /\ order_data' =
                 IF c.kind = "cancel" THEN CancelledData
                 ELSE IF c.kind = "select" /\ ~raises
                 THEN ConfirmedData(special_offers, c.selected_offer, car_number + 1)
                 ELSE IF continues /\ ~HasNextAttempt(attempt) THEN AbandonedData
                 ELSE order_data
            /\ pc' = IF continues THEN AfterSpeak(sounded, next) ELSE next
            /\ outcome' =
                 IF pc' = "crashed" THEN "raised"
                 ELSE IF c.kind = "cancel" THEN "Cancelled"
                 ELSE IF c.kind = "select" THEN "Confirmed"
                 ELSE IF ~HasNextAttempt(attempt) THEN "Abandoned"
                 ELSE outcome
            /\ inProgress' = IF pc' = "crashed" THEN inProgress - 1 ELSE inProgress
    /\ UNCHANGED <<asideVars, sensor, edgeVars, running, car_detected, special_offers,
                   current_customer, sessions, carAtStart, queueVars>>

\* the loop iteration with a text-to-speech engine that works
Listen == ListenWith(TRUE)

\* the same when the reprompt or the repeated menu gives no sound
ListenSilent == ListenWith(FALSE)

\* line 1187 raises IndexError: special_offers[selected_offer - 1] does not exist
DetailsRaise(so, selected_offer) == selected_offer # 0 /\ selected_offer > Len(so)

\* a plausible slip: the selection is not copied into the record
HandoffInfo_noselection(customer_id, data, so) ==
    [customer_id |-> customer_id,
     order_id |-> IF data.order_id[1] # "None" THEN data.order_id
                  ELSE <<"CUST", customer_id>>,
     car_number |-> data.car_number,
     full_order_text |-> data.full_order_text,
     selected_offer |-> 0,
     offer_details |-> "None",
     status |-> "ready_for_operator"]

\* the dict handoff_to_operator builds at lines 1179-1189
HandoffInfo(customer_id, data, so) ==
    [customer_id |-> customer_id,
     order_id |-> IF data.order_id[1] # "None" THEN data.order_id
                  ELSE <<"CUST", customer_id>>,
     car_number |-> data.car_number,
     full_order_text |-> data.full_order_text,
     selected_offer |-> data.selected_offer,
     offer_details |-> IF data.selected_offer # 0 THEN so[data.selected_offer]
                       ELSE "None",
     status |-> "ready_for_operator"]

\* the dict both hand-off functions return for a cancelled order (1172, 1218)
CancelledInfo(customer_id) ==
    [customer_id |-> customer_id, cancelled |-> TRUE, full_order_text |-> "None"]

\* a plausible slip: the cancelled flag is not tested
SkipsQueue_never(data) == FALSE

\* a plausible slip: an order without a selection is not queued either
SkipsQueue_unselected(data) == data.cancelled \/ data.selected_offer = 0

\* line 1217: handoff_to_operator_simple returns at once, nothing is queued
SkipsQueue(data) == data.cancelled

\* a plausible slip: the record is put by both hand-off functions
Put_twice(q, item) == Append(Append(q, item), item)

\* a plausible slip: a LIFO queue, the newest record first
Put_front(q, item) == <<item>> \o q

\* self.order_queue.put(item) of line 1192, on the queue.Queue of line 102
Put(q, item) == Append(q, item)

\* a plausible slip: the queue is built with room for one record
Full_one(q) == Len(q) >= 1

\* queue.Queue.put blocks while the queue is full, which takes a maxsize
\* above 0 (line 102 gives none)
Full(q) == maxsize > 0 /\ Len(q) >= maxsize

\* line 1258: handoff_info = self.handoff_to_operator_simple(customer_id, order_data)
Handoff ==
    /\ pc = "handoff"
    /\ (~SkipsQueue(order_data)
           /\ ~DetailsRaise(special_offers, order_data.selected_offer))
         => ~Full(order_queue)
    /\ LET raises == ~SkipsQueue(order_data)
                     /\ DetailsRaise(special_offers, order_data.selected_offer)
           info == IF SkipsQueue(order_data) THEN CancelledInfo(current_customer)
                   ELSE HandoffInfo(current_customer, order_data, special_offers)
       IN  IF raises
           THEN /\ pc' = "crashed"
                /\ outcome' = "raised"
                /\ inProgress' = inProgress - 1
                /\ UNCHANGED <<order_queue, pushedBy, handoff_info>>
           ELSE /\ pc' = "return"
                /\ handoff_info' = info
                /\ order_queue' = IF SkipsQueue(order_data) THEN order_queue
                                  ELSE Put(order_queue, info)
                /\ pushedBy' = IF SkipsQueue(order_data) THEN pushedBy
                               ELSE Append(pushedBy, sessions)
                /\ UNCHANGED <<outcome, inProgress>>
    /\ UNCHANGED <<asideVars, sensor, edgeVars, running, car_detected, special_offers,
                   current_customer, car_number, sessions, attempt, order_data,
                   heard, announced, reprompts, sinceAnnounce, carAtStart, spoken,
                   speechFailed, terminated, consumed>>

\* lines 1269-1270: self.current_customer = None; return handoff_info
Return ==
    /\ pc = "return"
    /\ pc' = "loop"
    /\ current_customer' = 0
    /\ inProgress' = inProgress - 1
    /\ terminated' = Append(terminated, [sess |-> sessions, outcome |-> outcome])
    \* the session is over: its locals and its history are gone
    /\ attempt' = 0
    /\ order_data' = NoData
    /\ heard' = <<>>
    /\ announced' = 0
    /\ reprompts' = 0
    /\ sinceAnnounce' = 0
    /\ carAtStart' = 0
    /\ outcome' = "none"
    /\ spoken' = <<>>
    /\ speechFailed' = FALSE
    /\ UNCHANGED <<asideVars, sensor, edgeVars, running, car_detected, special_offers,
                   car_number, sessions, order_queue, consumed, pushedBy,
                   handoff_info>>

----------------------------------------------------------------------------

Next ==
    \/ SensorChange
    \/ Pop
    \/ LoopTest
    \/ DetectArrival
    \/ DetectPresent
    \/ DetectAbsent
    \/ AnnounceOffers
    \/ Listen
    \/ Handoff
    \/ Return

Spec == Init /\ [][Next]_vars

\* the same program with a text-to-speech engine that may fail at any speak()
\* of the menu or of a reprompt
NextSpeech ==
    \/ SensorChange
    \/ LoopTest
    \/ DetectArrival
    \/ DetectPresent
    \/ DetectAbsent
    \/ AnnounceOffers
    \/ AnnounceOffersSilent
    \/ Listen
    \/ ListenSilent
    \/ Handoff
    \/ Return

SpecSpeech == Init /\ [][NextSpeech]_vars

----------------------------------------------------------------------------
(* run() against the clock: a process_customer() call is one step that
   lasts at least the pause announce_offers makes after its greeting *)

\* line 1245: CUST_ and the local time to the second
CustomerId(t) == t \div TicksPerSecond

\* a plausible slip: no pause after the greeting
SessionEnds_atonce(t) == t

\* the earliest time a process_customer() call entered at t returns: the
\* time.sleep(1.5) of line 877 is on every path through announce_offers
SessionEnds(t) == t + GreetingPause

\* time goes by between two steps of run() (speech, listening, scheduling)
Tick ==
    /\ now < MaxNow
    /\ now' = now + 1
    /\ UNCHANGED <<stopCalled, ids, matchVars, postVars, confirmVars, programVars>>

\* lines 1290-1295 and 1243-1270: the car just arrived, process_customer()
\* takes its customer_id from the clock, runs and returns
TimedSession ==
    /\ pc = "detect"
    /\ sensor
    /\ CarJustArrived(car_detected)
    /\ sessions < MaxSessions
    /\ SessionEnds(now) <= MaxNow
    /\ car_detected' = TRUE
    /\ sessions' = sessions + 1
    /\ ids' = Append(ids, CustomerId(now))
    /\ now' = SessionEnds(now)
    /\ pc' = "loop"
    /\ UNCHANGED <<stopCalled, matchVars, postVars, confirmVars, sensor, running, special_offers,
                   current_customer, car_number, inProgress, sessionVars, queueVars, edgeVars>>

\* lines 1297-1303: the detector is low, run() sleeps 0.2 s
TimedAbsent ==
    /\ pc = "detect"
    /\ ~sensor
    /\ now + PollSleep <= MaxNow
    /\ car_detected' = FALSE
    /\ now' = now + PollSleep
    /\ pc' = "loop"
    /\ UNCHANGED <<stopCalled, ids, matchVars, postVars, confirmVars, sensor, running, special_offers, current_customer,
                   car_number, sessions, inProgress, sessionVars, queueVars, edgeVars>>

NextClock ==
    \/ SensorChange
    \/ LoopTest
    \/ DetectPresent
    \/ Tick
    \/ TimedSession
    \/ TimedAbsent

SpecClock == Init /\ [][NextClock]_vars

----------------------------------------------------------------------------
(* get_customer_order_continuous taken alone *)

InitPost ==
    /\ Constructed
    /\ listenEvent = Timeout
    /\ listenResult = NoResponse
    /\ branch = NoBranch
    /\ phrases \in PhraseLists
    /\ ollamaReply \in OllamaReplies
    /\ continuous = NoData

\* lines 1081-1126: the order is captured and post-processed
Continuous ==
    /\ continuous = NoData
    /\ continuous' = ContinuousData(phrases, ollamaReply, special_offers)
    /\ UNCHANGED <<stopCalled, phrases, ollamaReply, matchVars, clockVars, confirmVars, programVars>>

\* the next customer and the next answer of the Ollama client
NextOrder ==
    /\ continuous # NoData
    /\ \E ph \in PhraseLists, r \in OllamaReplies :
        /\ phrases' = ph
        /\ ollamaReply' = r
    /\ continuous' = NoData
    /\ UNCHANGED <<stopCalled, matchVars, clockVars, confirmVars, programVars>>

NextPost ==
    \/ Continuous
    \/ NextOrder

SpecPost == InitPost /\ [][NextPost]_vars

----------------------------------------------------------------------------
(* get_customer_order taken alone *)

\* one more listen() result of the dialogue to come
Say ==
    /\ orderResult = NoData
    /\ Len(dialogue) < MaxDialogue
    /\ \E r \in {NoResponse} \cup {Heard(t) : t \in Says} :
        dialogue' = Append(dialogue, r)
    /\ UNCHANGED <<stopCalled, orderResult, matchVars, clockVars, postVars, programVars>>

\* line 1266: order_data = self.get_customer_order()
GetOrder ==
    /\ orderResult = NoData
    /\ orderResult' = GetCustomerOrder(dialogue, special_offers)
    /\ UNCHANGED <<stopCalled, dialogue, matchVars, clockVars, postVars, programVars>>

NextConfirm ==
    \/ Say
    \/ GetOrder

SpecConfirm == Init /\ [][NextConfirm]_vars

----------------------------------------------------------------------------
(* run() with stop() called from another thread.  What process_customer()
   does is one step here: it reads neither running nor the detector, and
   each of its listen and speak calls returns *)

\* DriveThruSystem() has returned (running False, line 100), run() has been
\* called and is before its first line
InitStop ==
    /\ Built
    /\ pc = "run"
    /\ running = FALSE
    /\ phrases = <<>>
    /\ ollamaReply = ReplyOff
    /\ continuous = NoData
    /\ listenEvent = Timeout
    /\ listenResult = NoResponse
    /\ branch = NoBranch

\* lines 1274-1285: self.running = True, the banner, car_detected = False
RunStart ==
    /\ pc = "run"
    /\ running' = TRUE
    /\ car_detected' = FALSE
    /\ pc' = "loop"
    /\ UNCHANGED <<asideVars, sensor, special_offers, current_customer, car_number,
                   sessions, inProgress, sessionVars, queueVars, edgeVars>>

\* run() has been called and has not returned
RunExecuting == pc \in {"run", "loop", "detect"}

\* stop(), lines 1312-1314, called from another thread while run() executes
Stop ==
    /\ RunExecuting
    /\ running' = FALSE
    /\ stopCalled' = TRUE
    /\ UNCHANGED <<matchVars, clockVars, postVars, confirmVars, sensor, pc,
                   car_detected, special_offers, current_customer, car_number,
                   sessions, inProgress, sessionVars, queueVars, edgeVars>>

\* with this menu some selection makes process_customer() raise (line 1058
\* or line 1187)
CanRaise(so) ==
    \E c \in Classified :
        /\ c.kind = "select"
        /\ DisplayRaises(so, c.selected_offer) \/ DetailsRaise(so, c.selected_offer)

\* lines 1290-1296: the car just arrived, process_customer() is called and
\* returns, or raises and ends run()
WholeSession ==
    /\ pc = "detect"
    /\ sensor
    /\ CarJustArrived(car_detected)
    /\ car_detected' = TRUE
    /\ \/ pc' = "loop"
       \/ CanRaise(special_offers) /\ pc' = "crashed"
    /\ UNCHANGED <<asideVars, sensor, running, special_offers, current_customer,
                   car_number, sessions, inProgress, sessionVars, queueVars, edgeVars>>

\* the steps of the thread that executes run()
RunSteps ==
    \/ RunStart
    \/ LoopTest
    \/ DetectPresent
    \/ DetectAbsent
    \/ WholeSession

NextStop ==
    \/ SensorChange
    \/ Stop
    \/ RunStart
    \/ LoopTest
    \/ DetectPresent
    \/ DetectAbsent
    \/ WholeSession

SpecStop == InitStop /\ [][NextStop]_vars

\* the thread of run() is scheduled again and again; nothing is assumed of
\* the detector or of the thread that calls stop()
SpecStopFair == SpecStop /\ WF_vars(RunSteps)

----------------------------------------------------------------------------
(* The matcher of get_customer_order_simple taken alone: every listen()
   result is put to lines 1024-1053 and the branch it takes is recorded *)

InitMatch ==
    /\ Constructed
    /\ phrases = <<>>
    /\ ollamaReply = ReplyOff
    /\ continuous = NoData
    /\ listenEvent \in ListenEvents
    /\ listenResult = ListenReturn(listenEvent)
    /\ branch = NoBranch

\* lines 1024-1053 applied to the listen() result
Match ==
    /\ branch = NoBranch
    /\ branch' = Classify(listenResult)
    /\ UNCHANGED <<stopCalled, listenEvent, listenResult, programVars, clockVars, postVars,
                   confirmVars>>

\* line 1023: the next listen() result
NextListen ==
    /\ branch # NoBranch
    /\ \E e \in ListenEvents :
        /\ listenEvent' = e
        /\ listenResult' = ListenReturn(e)
    /\ branch' = NoBranch
    /\ UNCHANGED <<stopCalled, programVars, clockVars, postVars, confirmVars>>

NextMatch ==
    \/ Match
    \/ NextListen

SpecMatch == InitMatch /\ [][NextMatch]_vars

----------------------------------------------------------------------------
(* What the claims speak of *)

\* every record put on order_queue so far, in the order the consumer sees them
Queued == consumed \o order_queue

\* the positions in Queued of the records session s put
RecordsOf(s) == {i \in 1..Len(pushedBy) : pushedBy[i] = s}

\* the sessions whose hand-off is done, with the outcome each reached
Ended ==
    {<<terminated[i].sess, terminated[i].outcome>> : i \in 1..Len(terminated)}
    \cup (IF pc = "return" THEN {<<sessions, outcome>>} ELSE {})

\* the outcome a queued record shows
RecordOutcome(rec) ==
    IF "cancelled" \in DOMAIN rec THEN "Cancelled"
    ELSE IF rec.selected_offer # 0 THEN "Confirmed"
    ELSE "Abandoned"

\* the first n listens of this session all returned nothing
FirstSilent(n) == Len(heard) >= n /\ \A i \in 1..n : heard[i].kind = "none"

RepeatHeard == [kind |-> "repeat", selected_offer |-> 0]
SelectHeard(k) == [kind |-> "select", selected_offer |-> k]

\* C1: at most one process_customer() call is in progress at any time, and a
\* session begins only on a rising edge of the detector that happened outside
\* every session: an edge during a session starts no second one.
C1_SingleFlight ==
    /\ [](inProgress <= 1)
    /\ [][sessions' # sessions => (inProgress = 0 /\ freshEdge)]_vars

\* the detector rose while the first session was in progress, and it is still
\* the only session
C1_Witness == inProgress = 1 /\ roseInSession /\ sensor /\ sessions = 1

C3_WithinLimits ==
    /\ sinceAnnounce <= max_repeats + 1
    /\ announced - 1 <= max_repeats

\* C4 as claimed: whenever the session listens, a code said as a digit and the
\* same code said as its number word, inside the same carrier phrase, take the
\* same branch of the loop body.
C4_CodeEquivalence ==
    pc = "listen" =>
        \A c \in Carriers, k \in Codes :
            Classify(Heard(Embed(c, Str(k)))) = Classify(Heard(Embed(c, NumberToWord(k))))

\* the position at which session s returned (past the end while it has not)
TermPos(s) ==
    IF \E k \in 1..Len(terminated) : terminated[k].sess = s
    THEN CHOOSE k \in 1..Len(terminated) : terminated[k].sess = s
    ELSE Len(terminated) + 1

\* C5: the records taken off the queue followed by those still on it are the
\* records in the order they were put, each session's record where its put
\* was, and that is the order in which the sessions ended.
C5_Fifo ==
    /\ Len(Queued) = Len(pushedBy)
    /\ \A i \in 1..Len(Queued) : Queued[i].customer_id = pushedBy[i]
    /\ \A i, j \in 1..Len(pushedBy) :
           i < j => TermPos(pushedBy[i]) < TermPos(pushedBy[j])

\* the consumer has taken the first session's record, the second session's
\* record is waiting
C5_Witness ==
    /\ Len(consumed) = 1
    /\ Len(order_queue) = 1
    /\ consumed[1].customer_id = 1
    /\ order_queue[1].customer_id = 2

\* the session has reached a terminal state: get_customer_order_simple returned
Terminal == pc \in {"handoff", "return"}

\* C6: after a repeat request and then a selectable code k, the menu has been
\* announced twice, the session is Confirmed with the k-th offer, and once the
\* hand-off is done the session has put exactly one record, which names the
\* k-th offer ("zero" is a repeat request and "two" selects offer 2).
C6_RepeatThenSelect ==
    /\ Classify(Heard(T_zero)) = RepeatHeard
    /\ Classify(Heard(T_two)) = SelectHeard(2)
    /\ \A k \in 1..Len(Offers(special_offers)) :
        heard = <<RepeatHeard, SelectHeard(k)>> =>
            /\ announced = 2
            /\ Terminal
            /\ outcome = "Confirmed"
            /\ order_data.selected_offer = k
            /\ order_data.full_order_text = special_offers[k]
            /\ pc = "return" =>
                /\ Cardinality(RecordsOf(sessions)) = 1
                /\ \A i \in RecordsOf(sessions) :
                    /\ Queued[i].selected_offer = k
                    /\ Queued[i].offer_details = special_offers[k]
                    /\ Queued[i].full_order_text = special_offers[k]

\* the menu is A, B, C; the customer asked for a repeat, then chose 2, and the
\* record naming B is on the queue
C6_Witness ==
    /\ special_offers = <<"A", "B", "C">>
    /\ heard = <<RepeatHeard, SelectHeard(2)>>
    /\ pc = "return"
    /\ order_queue # <<>>
    /\ order_queue[Len(order_queue)].full_order_text = "B"

\* C7 as claimed: once the first three listens have returned nothing, the
\* session is Abandoned and listens no more.
C7_Original ==
    FirstSilent(3) => (Terminal /\ outcome = "Abandoned" /\ Len(heard) = 3)

\* C7 amended: the limit is max_repeats + 1 = 4 listens.  After three silent
\* listens the session listens again; after four it is Abandoned with no
\* selected item and listens no more.
C7_Amended ==
    /\ (FirstSilent(max_repeats) /\ Len(heard) = max_repeats) =>
           (pc = "listen" /\ outcome = "none")
    /\ FirstSilent(max_repeats + 1) =>
        /\ Len(heard) = max_repeats + 1
        /\ Terminal
        /\ outcome = "Abandoned"
        /\ order_data = AbandonedData
        /\ order_data.selected_offer = 0

\* four listens returned nothing and the hand-off is done
C7_Witness == FirstSilent(max_repeats + 1) /\ pc = "return"

\* the utterances that are the cancel code and nothing else
CancelUtterances == {T_six, Str(CANCEL_CODE), U_SIX}

\* C8: "six" and "6" are taken for a cancellation, and when the first listen
\* of a session is taken for one, the session is Cancelled at once: one listen,
\* one menu announcement, no reprompt, the loop index and the car number as
\* they were.
C8_CancelFirst ==
    /\ \A t \in CancelUtterances : Classify(Heard(t)).kind = "cancel"
    /\ (Len(heard) >= 1 /\ heard[1].kind = "cancel") =>
        /\ Len(heard) = 1
        /\ Terminal
        /\ outcome = "Cancelled"
        /\ announced = 1
        /\ reprompts = 0
        /\ attempt = 0
        /\ car_number = carAtStart

\* the first listen was a cancellation and the hand-off is done
C8_Witness == heard = <<[kind |-> "cancel", selected_offer |-> 0]>> /\ pc = "return"

\* C9 as claimed: a Cancelled session whose hand-off is done has put one
\* record, marked Cancelled and with no selected item.
C9_Original ==
    \A e \in Ended :
        e[2] = "Cancelled" =>
            /\ Cardinality(RecordsOf(e[1])) = 1
            /\ \A i \in RecordsOf(e[1]) : RecordOutcome(Queued[i]) = "Cancelled"

\* C9 amended: a Cancelled session puts no record on the queue; what
\* process_customer() returns is marked cancelled and carries no order text.
C9_Amended ==
    /\ \A e \in Ended : e[2] = "Cancelled" => RecordsOf(e[1]) = {}
    /\ (pc = "return" /\ outcome = "Cancelled") =>
        /\ handoff_info.cancelled
        /\ handoff_info.full_order_text = "None"
        /\ handoff_info.customer_id = current_customer
        /\ \A i \in 1..Len(Queued) : RecordOutcome(Queued[i]) # "Cancelled"

\* a session was cancelled after an earlier one put its record
C9_Witness ==
    /\ pc = "return"
    /\ outcome = "Cancelled"
    /\ sessions = 2
    /\ Len(Queued) = 1

\* C10: an Abandoned session whose hand-off is done has put exactly one
\* record, ready for the operator, with no selected item, no offer and no
\* order text.
C10_AbandonedQueued ==
    \A e \in Ended :
        e[2] = "Abandoned" =>
            /\ Cardinality(RecordsOf(e[1])) = 1
            /\ \A i \in RecordsOf(e[1]) :
                /\ i <= Len(Queued)
                /\ Queued[i].selected_offer = 0
                /\ Queued[i].offer_details = "None"
                /\ Queued[i].full_order_text = "None"
                /\ Queued[i].status = "ready_for_operator"

\* a session ran out of attempts and its record is on the queue
C10_Witness ==
    /\ pc = "return"
    /\ outcome = "Abandoned"
    /\ order_queue # <<>>
    /\ order_queue[Len(order_queue)].selected_offer = 0

\* C11 as claimed: no error raised inside a session leaves process_customer()
\* or stops run(), whatever is heard and whatever the menu holds, and a call
\* that returns has one of the three outcomes.
C11_NoEscape ==
    /\ pc # "crashed"
    /\ pc = "return" => outcome \in {"Confirmed", "Cancelled", "Abandoned"}

\* C12 as claimed: a change of the detector is taken for a departure and a new
\* arrival only when it has held for more than one sample: a session after
\* the first never starts on a single low sample between two high ones.
C12_Debounced == (InCall /\ sessions >= 2) => ~briefLow

\* C13 as claimed: with a menu of N items, each code 1..N, said as a digit or
\* as its word, is taken for the selection of that item, and a selection k
\* heard by a session leads to Confirmed exactly when 1 <= k <= N, the order
\* then being the k-th item of the menu.
C13_EveryItemSelectable ==
    /\ pc = "listen" =>
        \A k \in 1..Len(special_offers) :
            /\ Classify(Heard(Str(k))) = SelectHeard(k)
            /\ Classify(Heard(NumberToWord(k))) = SelectHeard(k)
    /\ \A i \in 1..Len(heard) :
        heard[i].kind = "select" =>
            /\ (outcome = "Confirmed") <=> (heard[i].selected_offer \in 1..Len(special_offers))
            /\ outcome = "Confirmed" =>
                   order_data.full_order_text = special_offers[heard[i].selected_offer]

\* the codes the matcher knows: repeat, cancel and the selections
Recognisable == {REPEAT_CODE, CANCEL_CODE} \cup (1..menu_choices)

CancelHeard == [kind |-> "cancel", selected_offer |-> 0]

\* the branch the codes of S lead to when the tests are made in the order
\* repeat, cancel, selections in ascending order
ByPriority(S) ==
    IF REPEAT_CODE \in S THEN RepeatHeard
    ELSE IF CANCEL_CODE \in S THEN CancelHeard
    ELSE IF S \cap (1..menu_choices) = {} THEN [kind |-> "unrecognised", selected_offer |-> 0]
    ELSE SelectHeard(CHOOSE k \in S \cap (1..menu_choices) :
                         \A j \in S \cap (1..menu_choices) : k <= j)

\* C14 as claimed: of two codes in one utterance the one said first decides:
\* "a or b" takes the branch of a alone.
C14_Original ==
    branch # NoBranch =>
        /\ listenResult = Heard(U_two_zero) => branch = SelectHeard(2)
        /\ listenResult = Heard(U_one_six) => branch = SelectHeard(1)
        /\ listenResult = Heard(U_three_or_one) => branch = SelectHeard(3)
        /\ \A a, b \in Recognisable :
               listenResult = Heard(Pair(a, b)) => branch = ByPriority({a})

\* C14 amended: of several codes in one utterance the one tested first
\* decides, wherever it stands in the text: repeat before cancel before the
\* selections, and of two selections the lower.
C14_Amended ==
    branch # NoBranch =>
        /\ listenResult = Heard(U_two_zero) => branch = RepeatHeard
        /\ listenResult = Heard(U_one_six) => branch = CancelHeard
        /\ listenResult = Heard(U_three_or_one) => branch = SelectHeard(1)
        /\ \A a, b \in Codes :
               listenResult = Heard(Pair(a, b)) => branch = ByPriority({a, b})

\* "three or one" was heard and taken for the selection of offer 1
C14_Witness == listenResult = Heard(U_three_or_one) /\ branch = SelectHeard(1)

\* C15 as claimed: once get_customer_order_simple has returned, confirmed,
\* cancelled or abandoned, process_customer() goes on to return a record, and
\* the record it returns holds the customer_id of the session.
C15_ReturnsCustomerId ==
    /\ order_data # NoData => pc \in {"handoff", "return"}
    /\ pc = "return" =>
        /\ "customer_id" \in DOMAIN handoff_info
        /\ handoff_info.customer_id = current_customer

\* the listens this session made that were taken for a repeat request
RepeatsUsed == Cardinality({i \in 1..Len(heard) : heard[i].kind = "repeat"})

\* C16 as claimed: a repeat request sets the attempt count back to 0, so the
\* listens made before it cost nothing: a session abandoned for want of an
\* answer has used the whole attempt budget since its last announcement.
C16_AttemptReset ==
    /\ (pc = "listen" /\ Len(heard) > 0 /\ heard[Len(heard)].kind = "repeat") =>
           attempt = 0
    /\ (Terminal /\ outcome = "Abandoned" /\ heard[Len(heard)].kind # "repeat") =>
           sinceAnnounce = max_repeats + 1

\* C17 as claimed: the repeat request that brings the count of repeats to
\* max_repeats ends the session as Abandoned and is not answered with the
\* menu: the menu is announced once, and once more for each repeat request
\* below max_repeats.
C17_LastRepeatAbandons ==
    /\ RepeatsUsed >= max_repeats => (Terminal /\ outcome = "Abandoned")
    /\ (pc \in {"listen", "handoff", "return"}) =>
           announced = 1 + (IF RepeatsUsed < max_repeats THEN RepeatsUsed
                            ELSE max_repeats - 1)

\* the listens of this session, the last one left out, that brought nothing
\* usable: no text, or text without a code
FailedBeforeLast ==
    {i \in 1..(Len(heard) - 1) : heard[i].kind \in {"none", "unrecognised"}}

\* C18 as claimed: a reprompt is spoken only when another listen follows it:
\* an Abandoned session has spoken one reprompt for each failed listen but
\* the last, and a reprompt is not an announcement of the menu.
C18_RepromptThenListen ==
    /\ (Terminal /\ outcome = "Abandoned") => reprompts = Cardinality(FailedBeforeLast)
    /\ (pc \in {"listen", "handoff", "return"}) => announced = 1 + RepeatsUsed

\* C19 as claimed: every session takes the next sequence number when it is
\* created: while a session runs, the counter has counted it.
C19_Original == InCall => car_number = sessions

\* the records queued up to the i-th that name a selection
ConfirmedUpTo(i) == {j \in 1..i : Queued[j].selected_offer # 0}

\* C19 amended: the sequence number is taken when a selection is recognised,
\* not when the session is created.  A session that is listening has taken
\* none; a Confirmed session has taken the next one; a Cancelled or Abandoned
\* session has none and leaves the counter alone; and the confirmed orders on
\* the queue carry 1, 2, ... in the order they were queued, the others none.
C19_Amended ==
    /\ (pc = "listen") => car_number = carAtStart
    /\ (Terminal /\ outcome = "Confirmed") =>
        /\ car_number = carAtStart + 1
        /\ order_data.car_number = car_number
    /\ (Terminal /\ outcome \in {"Cancelled", "Abandoned"}) =>
        /\ car_number = carAtStart
        /\ order_data.car_number = 0
    /\ \A i \in 1..Len(Queued) :
        Queued[i].car_number = IF Queued[i].selected_offer # 0
                               THEN Cardinality(ConfirmedUpTo(i)) ELSE 0

\* the first session was abandoned, the second confirmed: the second
\* session's record carries car number 1
C19_Witness ==
    /\ Len(terminated) = 2
    /\ terminated[1].outcome = "Abandoned"
    /\ terminated[2].outcome = "Confirmed"
    /\ Len(Queued) = 2
    /\ Queued[2].customer_id = 2
    /\ Queued[2].car_number = 1

\* C20 as claimed: with a menu that is not empty, an announcement is the
\* greeting, then every item of the menu in its order, then the prompt that
\* explains select, repeat and cancel: no item is left out.
C20_WholeMenu ==
    (announced >= 1 /\ special_offers # <<>>) =>
        spoken = <<"greeting">> \o special_offers \o <<"prompt">>

\* the kinds of listen() result after which the loop goes round again
Continuing == {"none", "repeat", "unrecognised"}

\* the utterances heard so far leave the dialogue open: another listen is due
DialogueOpen ==
    /\ Len(heard) < max_repeats + 1
    /\ \A i \in 1..Len(heard) : heard[i].kind \in Continuing

\* C21: when the speech output has failed during the menu or a reprompt, the
\* session is neither ended nor aborted: as long as what was heard leaves the
\* dialogue open the session is at its next listen, it ends only on a
\* cancellation, a selection or the fourth listen, and nothing is raised but
\* by a selection the menu does not hold.
C21_SpeechFailureGoesOn ==
    (speechFailed /\ pc # "announce") =>
        /\ DialogueOpen => pc = "listen"
        /\ Terminal => ~DialogueOpen
        /\ pc = "crashed" =>
               (heard # <<>> /\ heard[Len(heard)].kind = "select")

\* speech output failed in a session that went on to listen three times and
\* heard a selection at the third
C21_Witness ==
    /\ speechFailed
    /\ Len(heard) = 3
    /\ heard[3].kind = "select"
    /\ outcome = "Confirmed"
    /\ pc = "return"

\* the branch a listen() that timed out takes
TimeoutBranch == [kind |-> "none", selected_offer |-> 0]

OutcomeOfHeard ==
    IF heard = <<>> THEN "none"
    ELSE IF heard[Len(heard)].kind = "cancel" THEN "Cancelled"
    ELSE IF heard[Len(heard)].kind = "select" THEN "Confirmed"
    ELSE IF Len(heard) = max_repeats + 1 THEN "Abandoned"
    ELSE "none"

\* C23: when the detector has gone low during a session, the session goes on
\* as its utterances and timeouts decide: it is announcing or listening as
\* long as they leave the dialogue open, and the outcome it reaches is the
\* one they lead to.
C23_DepartureIgnored ==
    (~sensor /\ pc \in {"announce", "listen", "handoff", "return"}) =>
        /\ pc \in {"announce", "listen"} <=> DialogueOpen
        /\ outcome = OutcomeOfHeard
        /\ pc = "announce" => heard = <<>>

\* the vehicle has left and the session has listened twice and listens on
C23_Witness ==
    /\ ~sensor
    /\ car_detected
    /\ pc = "listen"
    /\ Len(heard) = 2

\* C24 as claimed: a session that has reached one of the three outcomes is
\* followed by the return to idle: it never stops the controller, and once
\* the controller polls again nothing of the session is left.
C24_BackToIdle ==
    /\ pc = "crashed" => order_data = NoData
    /\ pc \in {"loop", "detect"} =>
        /\ inProgress = 0
        /\ current_customer = 0
        /\ order_data = NoData

\* C25 as claimed: the detector goes on sampling while a session is blocked
\* in announce or listen and keeps the edges for the controller: when the
\* level rose during the last session, the controller that finds it high at
\* its next poll takes the vehicle for one that just arrived.
C25_EdgesRecorded ==
    (pc = "detect" /\ sensor /\ roseInSession /\ inProgress = 0) => ~car_detected

\* C27: the put of a record never waits, whatever the queue holds, and a step
\* changes the queue in one of two ways only: the oldest record is taken off
\* by the consumer, or one record is added behind all the others, which stay
\* as they were and in their order.
C27_QueueKeeps ==
    /\ [](pc = "handoff" => ENABLED Handoff)
    /\ [][\/ order_queue' = order_queue
          \/ /\ order_queue # <<>>
             /\ order_queue' = Tail(order_queue)
             /\ consumed' = Append(consumed, Head(order_queue))
          \/ /\ Len(order_queue') = Len(order_queue) + 1
             /\ SubSeq(order_queue', 1, Len(order_queue)) = order_queue
             /\ consumed' = consumed]_vars

\* two records wait on the queue, the first session's before the second's,
\* and nothing has been taken off
C27_Witness ==
    /\ Len(order_queue) = 2
    /\ consumed = <<>>
    /\ order_queue[1].customer_id = 1
    /\ order_queue[2].customer_id = 2

Unprocessed == ContinuousData(phrases, ReplyOff, special_offers)

\* C26: whatever the post-processor does, the order is captured or not, the
\* selected item, the captured phrases and the words of the hand-off are what
\* they are without it; only the order text can differ, it differs only when
\* the post-processor answered with a text of its own, and when it fails the
\* text is the one heard.
C26_PostProcessorOnlyText ==
    continuous # NoData =>
        /\ continuous.has_text = Unprocessed.has_text
        /\ continuous.selected_offer = Unprocessed.selected_offer
        /\ continuous.order_phrases = Unprocessed.order_phrases
        /\ ThanksForOrder(continuous) = ThanksForOrder(Unprocessed)
        /\ ollamaReply.kind \in {"raises", "echo"} =>
               continuous.full_order_text = Unprocessed.full_order_text
        /\ continuous.full_order_text # Unprocessed.full_order_text =>
               /\ ollamaReply.kind = "text"
               /\ continuous.full_order_text = Strip(ollamaReply.text)

\* the customer said "hello", the post-processor made " Two " of it: the
\* order text is "Two" and no item is selected
C26_Witness ==
    /\ continuous # NoData
    /\ phrases = <<U_hello>>
    /\ ollamaReply = [kind |-> "text", text |-> U_Two]
    /\ continuous.full_order_text = <<"T", "w", "o">>
    /\ continuous.selected_offer = 0
    /\ Len(special_offers) >= 2

\* texts that hold a digit or a number word without holding it as a token
SubstringOnly ==
    { U_ten_digits, U_sixteen_digits, U_sixty_digits, U_someone, U_fourteen }

UnrecognisedHeard == [kind |-> "unrecognised", selected_offer |-> 0]

\* C29 as claimed: a larger number or another word that only contains a
\* digit or a number word ("10", "16", "60", "someone", "fourteen") takes the
\* branch of an utterance in which no valid code is found.
C29_TokensOnly ==
    (branch # NoBranch /\ listenEvent.cause = "heard"
                       /\ listenEvent.text \in SubstringOnly) =>
        branch = UnrecognisedHeard

\* C30: a session of the simple flow listens at most max_repeats + 1 times,
\* whatever the listens return (nothing, an unrecognised text, a repeat
\* request): each of them uses up one iteration of the same loop; and it
\* announces the menu at most max_repeats + 2 times, once at the start and
\* once more for every repeat request heard.
C30_ListenBudget ==
    /\ Len(heard) <= max_repeats + 1
    /\ attempt <= max_repeats + 1
    /\ announced <= max_repeats + 2
    /\ announced <= 1 + RepeatsUsed
    /\ pc = "listen" => (Len(heard) = attempt /\ announced = 1 + RepeatsUsed)
    /\ \A k \in 1..Len(heard) : heard[k].kind \in Continuing \/ k = Len(heard)

\* a session asked for the menu again at every listen: four listens, five
\* announcements
C30_Witness ==
    /\ pc = "handoff"
    /\ Len(heard) = max_repeats + 1
    /\ \A k \in 1..Len(heard) : heard[k].kind = "repeat"
    /\ announced = max_repeats + 2

\* the records ever put on order_queue that carry the customer_id of session s
PutFor(s) == {i \in 1..Len(Queued) : Queued[i].customer_id = s}

\* C31: a session puts at most one record on order_queue, a step of the
\* program adds at most one record, and the records ever put are never more
\* than the sessions started.
C31_OneRecordPerSession ==
    /\ Len(Queued) <= sessions
    /\ \A s \in 1..sessions : Cardinality(PutFor(s)) <= 1
    /\ \A i \in 1..Len(Queued) : Queued[i].customer_id \in 1..sessions

\* two sessions are over and each has put its record
C31_Witness ==
    /\ sessions = 2
    /\ pc = "loop"
    /\ Len(Queued) = 2
    /\ Cardinality(PutFor(1)) = 1
    /\ Cardinality(PutFor(2)) = 1

\* the sessions confirmed so far: those that returned Confirmed and the one
\* in hand whose selection get_customer_order_simple has returned
ConfirmedSoFar ==
    Cardinality({i \in 1..Len(terminated) : terminated[i].outcome = "Confirmed"})
    + (IF /\ pc \in {"handoff", "return", "crashed"}
          /\ "selected_offer" \in DOMAIN order_data
          /\ order_data.selected_offer # 0
       THEN 1 ELSE 0)

\* C32 as claimed: the car-number counter is the number of sessions confirmed
\* so far, and the confirmed orders queued carry 1, 2, ... without gap.
C32_CounterIsConfirmed ==
    /\ car_number = ConfirmedSoFar
    /\ \A i \in 1..Len(Queued) :
        Queued[i].selected_offer # 0 =>
            Queued[i].car_number = Cardinality(ConfirmedUpTo(i))

\* C33: every record on order_queue either names a selection, a car number
\* and an order text, and then its offer_details and its order text are both
\* the item of the menu at the selected index; or it names none of the three
\* and no offer.
C33_RecordConsistent ==
    \A i \in 1..Len(Queued) :
        LET rec == Queued[i]
        IN  \/ /\ rec.selected_offer \in 1..Len(special_offers)
               /\ rec.car_number # 0
               /\ rec.full_order_text # "None"
               /\ rec.offer_details = special_offers[rec.selected_offer]
               /\ rec.full_order_text = special_offers[rec.selected_offer]
            \/ /\ rec.selected_offer = 0
               /\ rec.car_number = 0
               /\ rec.full_order_text = "None"
               /\ rec.offer_details = "None"

\* an abandoned session's record is followed by the record of a session
\* that chose the third item
C33_Witness ==
    /\ Len(Queued) = 2
    /\ Queued[1].selected_offer = 0
    /\ Queued[2].selected_offer = 3
    /\ Queued[2].full_order_text = "C"

\* the detector has been high without a break since the last session began
HighSinceStart == sessions >= 1 /\ sensor /\ ~freshEdge /\ ~roseInSession

\* C34: while the detector stays high after a session began, car_detected
\* stays set and no further session starts: a session starts only at a high
\* sample with car_detected unset, starting it sets car_detected, and only a
\* low sample unsets it.
C34_OnePerPresence ==
    /\ [](HighSinceStart => car_detected)
    /\ [][sessions' # sessions =>
            (pc = "detect" /\ sensor /\ ~car_detected /\ car_detected'
                /\ sessions' = sessions + 1)]_vars
    /\ [][(car_detected /\ ~car_detected') => (pc = "detect" /\ ~sensor)]_vars
    /\ [][(HighSinceStart /\ HighSinceStart') => sessions' = sessions]_vars

\* the session of a vehicle is over, the vehicle has not moved and run() is
\* at its next sample of the detector
C34_Witness ==
    /\ HighSinceStart
    /\ sessions = 1
    /\ Len(terminated) = 1
    /\ pc = "detect"
    /\ car_detected

\* C35 as claimed: the order text get_customer_order returns is never one the
\* customer rejected at confirmation without stating an order afterwards.
C35_RejectedNotReturned ==
    orderResult # NoData => ~(orderResult.has_text /\ orderResult.rejected)

\* run() has returned or has been left by an exception
RunOver == pc \in {"exited", "crashed"}

\* C36 as claimed: once stop() has been called while run() is executing,
\* run() eventually returns, whatever the detector does.
C36_StopEndsRun == stopCalled ~> RunOver

\* C37 as claimed: after stop() has been called, no customer session is
\* started.
C37_NoSessionAfterStop ==
    [][(~car_detected /\ car_detected') => ~stopCalled]_vars

====
